---- MODULE Spec2Model ----
(***************************************************************************)
(* Model of pyBL/ibl_base.py: the IBLBase integrator (edge-velocity        *)
(* set-up, solve, the registered termination events, the dense-output      *)
(* queries y and yp) and the IBLResult it returns.                         *)
(*                                                                         *)
(* Stations are integers on a small grid; state values are exact           *)
(* rationals <<n, d>> so that the normalised coordinate (x - t_old)/h of   *)
(* the dense output is computed as the code computes it, division by zero  *)
(* included (<<0, 0>> is NaN, <<1, 0>> and <<-1, 0>> are +inf and -inf).   *)
(* Python texts are sequences of tokens, "" being <<>>.                    *)
(***************************************************************************)
EXTENDS Integers, Sequences, FiniteSets, TLC

VARIABLES _U_e, _dU_edx, _d2U_edx2, _kill_events, _solution,
          x_vec, dense_output_vec, _ode, env, last, pinned, fs

velVars == <<_U_e, _dU_edx, _d2U_edx2>>
denseVars == <<x_vec, dense_output_vec, _ode>>
vars == <<_U_e, _dU_edx, _d2U_edx2, _kill_events, _solution,
          x_vec, dense_output_vec, _ode, env, last, pinned, fs>>

\* ---------------------------------------------------------------- bounds
\* stations of the grid are 0..MaxX
MaxX == 3
\* longest step the adaptive stepper takes
MaxStep == 2
\* longest term_event list passed to solve
MaxExtra == 1
\* most events registered with _add_kill_event
MaxKill == 1
\* longest array of stations passed to y / yp
MaxQuery == 1
\* degree of the dense-output polynomial's derivative (Q has InterpOrder + 1 columns)
InterpOrder == 1

Stations == 0..MaxX

\* ------------------------------------------------------- exact arithmetic
Abs(n) == IF n < 0 THEN -n ELSE n

Min(a, b) == IF a <= b THEN a ELSE b

RECURSIVE Gcd(_, _)
Gcd(a, b) == IF b = 0 THEN a ELSE Gcd(b, a % b)

NaN == <<0, 0>>

IsNaN(r) == r = NaN

IsFinite(r) == r[2] /= 0

\* a float as the fraction n/d in lowest terms; n/0 is nan or +-inf
RNorm(n, d) ==
    IF d = 0
    THEN (IF n = 0 THEN NaN ELSE IF n > 0 THEN <<1, 0>> ELSE <<-1, 0>>)
    ELSE LET g == Gcd(Abs(n), Abs(d))
             s == IF d < 0 THEN -1 ELSE 1
         IN  <<(s * n) \div g, (s * d) \div g>>

RInt(i) == <<i, 1>>

RAdd(a, b) ==
    IF IsNaN(a) \/ IsNaN(b) THEN NaN
    ELSE IF a[2] = 0 /\ b[2] = 0 THEN (IF a = b THEN a ELSE NaN)
    ELSE RNorm(a[1] * b[2] + b[1] * a[2], a[2] * b[2])

RMul(a, b) ==
    IF IsNaN(a) \/ IsNaN(b) THEN NaN ELSE RNorm(a[1] * b[1], a[2] * b[2])

\* numpy float division: 0/0 is nan, x/0 is +-inf; a warning, never an exception
RDiv(a, b) ==
    IF IsNaN(a) \/ IsNaN(b) THEN NaN ELSE RNorm(a[1] * b[2], a[2] * b[1])

\* np.cumprod(np.tile(x, n)): <<x, x^2, ..., x^n>>
RECURSIVE CumProdTile(_, _)
CumProdTile(x, n) ==
    IF n = 0 THEN <<>>
    ELSE IF n = 1 THEN <<x>>
    ELSE LET c == CumProdTile(x, n - 1) IN Append(c, RMul(c[n - 1], x))

\* np.dot of two vectors of equal length
RECURSIVE RDot(_, _)
RDot(a, b) ==
    IF Len(a) = 0 THEN RInt(0)
    ELSE RAdd(RDot(SubSeq(a, 1, Len(a) - 1), SubSeq(b, 1, Len(b) - 1)),
              RMul(a[Len(a)], b[Len(b)]))

\* ------------------------------------------------------------ python values
\* an optional text: None, or a sequence of tokens
PyNone == [none |-> TRUE, text |-> <<>>]

Str(t) == [none |-> FALSE, text |-> t]

\* an optional list: None, or a sequence
NoneList == [none |-> TRUE, items |-> <<>>]

ListOf(s) == [none |-> FALSE, items |-> s]

\* str(v) as "{}".format(v) writes it
FormatArg(v) == IF v.none THEN <<"None">> ELSE v.text

TERMINATION_MESSAGES ==
    [c \in {0, -1, 1, -99} |->
        CASE c = 0 -> <<"Completed">>
          [] c = -1 -> <<"Separated">>
          [] c = 1 -> <<"Transition">>
          [] c = -99 -> <<"Unknown Event">>]

\* TERMINATION_MESSAGES.get(status): None for a code that is no key
TerminationMessage(status) ==
    IF status \in DOMAIN TERMINATION_MESSAGES
    THEN Str(TERMINATION_MESSAGES[status])
    ELSE PyNone

IBLResult(x_end, F_end, status, message, success) ==
    [status |-> status,
     x_end |-> x_end,
     F_end |-> F_end,
     message |-> message,
     success |-> success]

\* ------------------------------------------------------- termination events
\* A termination event (a subclass of IBLTermEventBase): event_info() is
\* (code, reason); _call_impl(x, F) is x - root, zero at the station root.
Event(code, reason, root) ==
    [code |-> code, reason |-> reason, root |-> root, terminal |-> TRUE]

\* the events a closure registers for itself
InternalPool ==
    { Event(-1, <<"H_d too large">>, 1),
      Event(-2, <<>>, 3) }

\* the events a caller passes to solve as term_event
ExtraPool ==
    { Event(-1, <<"H_d too large">>, 1),
      Event(1, <<>>, 2),
      Event(-2, <<"custom stop">>, 1) }

event_info(e) == <<e.code, e.reason>>

EventCall(e, x, F) == x - e.root

\* ------------------------------------------------------------ dense output
\* The right-hand side the closure supplies (self._ode_impl): dF_i/dx = 2x - 1.
_ode_impl(x, F) == [i \in 1..Len(F) |-> 2 * x - 1]

\* The number of unknowns of that closure: a one-equation method.
StateDimension == 1

\* The interpolant of one accepted step [t_old, t_old + h] (RkDenseOutput):
\* F(t_old + s h) = y_old + h (Q[1] s + Q[2] s^2 + ...), exact for this closure.
StepInterpolant(t_old, h, y_old) ==
    LET f_old == _ode_impl(t_old, y_old)
        f_new == _ode_impl(t_old + h, y_old)
    IN  [t_old |-> t_old,
         h |-> h,
         y_old |-> y_old,
         order |-> InterpOrder,
         Q |-> [i \in 1..Len(y_old) |->
                  [k \in 1..(InterpOrder + 1) |->
                      IF k = 1 THEN RInt(f_old[i])
                      ELSE IF k = 2 THEN RInt((f_new[i] - f_old[i]) \div 2)
                      ELSE RInt(0)]]]

\* dense_output_vec[j](x): the interpolant evaluated at station x
DenseCall(seg, x) ==
    LET xd == RDiv(RInt(x - seg.t_old), RInt(seg.h))
        p == CumProdTile(xd, seg.order + 1)
    IN  [i \in 1..Len(seg.y_old) |->
            RAdd(RMul(RInt(seg.h), RDot(seg.Q[i], p)), seg.y_old[i])]

\* rtn.sol: the steps' end stations and their interpolants
OdeSolution(ts, interpolants) == [ts |-> ts, interpolants |-> interpolants]

NoSolution == [none |-> TRUE, ts |-> <<>>, interpolants |-> <<>>]

SomeSolution(sol) ==
    [none |-> FALSE, ts |-> sol.ts, interpolants |-> sol.interpolants]

\* np.searchsorted(ts, t, side = "left"): how many entries are below t
SearchSortedLeft(ts, t) == Cardinality({k \in 1..Len(ts) : ts[k] < t})

\* rtn.sol(t): the segment is located by bisection and clipped to the ends
OdeSolutionCall(sol, t) ==
    LET n == Len(sol.interpolants)
        ind == SearchSortedLeft(sol.ts, t)
        segment == Min(IF ind - 1 > 0 THEN ind - 1 ELSE 0, n - 1)
    IN  DenseCall(sol.interpolants[segment + 1], t)

\* ------------------------------------------------- the ODE solver (solve_ivp)
TOO_SMALL_STEP ==
    <<"Required step size is less than spacing between numbers.">>

SOLVER_FINISHED ==
    <<"The solver successfully reached the end of the integration interval.">>

SOLVER_EVENT == <<"A termination event occurred.">>

OdeResult(status, message, ts, sol, t_events) ==
    [t |-> ts,
     status |-> status,
     message |-> message,
     success |-> status >= 0,
     sol |-> sol,
     t_events |-> t_events]

\* the events whose value changes sign (or touches zero) over the step
find_active_events(g, g_new) ==
    {i \in DOMAIN g : \/ (g[i] <= 0 /\ g_new[i] >= 0)
                      \/ (g[i] >= 0 /\ g_new[i] <= 0)}

\* the root of event(t, sol(t)) on [t_old, t]
solve_event_equation(event, sol, t_old, t) ==
    CHOOSE r \in t_old..t : EventCall(event, r, DenseCall(sol, r)) = 0

\* np.argsort(roots) of the active events: by root, equal roots in index order
RECURSIVE ArgSortByRoot(_, _)
ArgSortByRoot(active, root) ==
    IF active = {} THEN <<>>
    ELSE LET first == CHOOSE i \in active :
                        \A j \in active :
                            root[i] < root[j] \/ (root[i] = root[j] /\ i <= j)
         IN  <<first>> \o ArgSortByRoot(active \ {first}, root)

\* The crossings recorded for a step, as <<event index, root>> in order of
\* root: everything up to and including the first terminal event.
handle_events(sol, events, active, t_old, t) ==
    LET root == [i \in active |-> solve_event_equation(events[i], sol, t_old, t)]
        order == ArgSortByRoot(active, root)
        stop == CHOOSE k \in 1..Len(order) :
                    /\ events[order[k]].terminal
                    /\ \A m \in 1..(k - 1) : ~events[order[m]].terminal
    IN  [k \in 1..stop |-> <<order[k], root[order[k]]>>]

root_of(found, i) ==
    found[CHOOSE k \in 1..Len(found) : found[k][1] = i][2]

RECURSIVE StepLoop(_, _, _, _, _)
StepLoop(ts, interpolants, y, t_bound, events) ==
    LET t_old == ts[Len(ts)]
        h == Min(MaxStep, t_bound - t_old)
        t == t_old + h
        nev == IF events.none THEN 0 ELSE Len(events.items)
        nothing == [i \in 1..nev |-> <<>>]
    IN  IF env.stiffAt \in t_old..(t - 1)
        THEN OdeResult(-1, TOO_SMALL_STEP, ts,
                       OdeSolution(ts, interpolants), nothing)
        ELSE
        LET sol == StepInterpolant(t_old, h, y)
            y_new == DenseCall(sol, t)
            g == [i \in 1..nev |-> EventCall(events.items[i], t_old, y)]
            g_new == [i \in 1..nev |-> EventCall(events.items[i], t, y_new)]
            active == find_active_events(g, g_new)
        IN  IF active /= {}
            THEN LET found == handle_events(sol, events.items, active, t_old, t)
                     t_stop == found[Len(found)][2]
                     t_events ==
                        [i \in 1..nev |->
                            IF env.lostCrossing THEN <<>>
                            ELSE IF \E k \in 1..Len(found) : found[k][1] = i
                            THEN <<root_of(found, i)>>
                            ELSE <<>>]
                 IN  OdeResult(1, SOLVER_EVENT, Append(ts, t_stop),
                               OdeSolution(Append(ts, t_stop),
                                           Append(interpolants, sol)),
                               t_events)
            ELSE IF t = t_bound
            THEN OdeResult(0, SOLVER_FINISHED, Append(ts, t),
                           OdeSolution(Append(ts, t), Append(interpolants, sol)),
                           nothing)
            ELSE StepLoop(Append(ts, t), Append(interpolants, sol), y_new,
                          t_bound, events)

\* solve_ivp(fun, t_span, y0, method = 'RK45', dense_output = True, events)
solve_ivp(t_span, y0, events) ==
    StepLoop(<<t_span[1]>>, <<>>, y0, t_span[2], events)

\* ------------------------------------------------------------------ solve
\* y0 = np.asarray(y0i); a 0-d initial state becomes the list [y0i]
AsY0(y0i) == IF y0i.ndim = 0 THEN <<y0i.val[1]>> ELSE y0i.val

NoTermEvent == [items |-> <<>>, kind |-> "none"]

OneTermEvent(e) == [items |-> <<e>>, kind |-> "one"]

TermEventList(s) == [items |-> s, kind |-> "list"]

\* the list of events handed to the solver
MergeEvents_ExtraFirst(internal, term_event) ==
    LET base == IF internal.none THEN <<>> ELSE internal.items
    IN  IF term_event.kind = "none"
        THEN (IF internal.none THEN NoneList ELSE ListOf(base))
        ELSE ListOf(term_event.items \o base)

MergeEvents_SingleDropped(internal, term_event) ==
    LET base == IF internal.none THEN <<>> ELSE internal.items
    IN  IF term_event.kind = "none"
        THEN (IF internal.none THEN NoneList ELSE ListOf(base))
        ELSE IF term_event.kind = "list"
        THEN ListOf(base \o term_event.items)
        ELSE ListOf(base)

MergeEvents(internal, term_event) ==
    LET base == IF internal.none THEN <<>> ELSE internal.items
    IN  IF term_event.kind = "none"
        THEN (IF internal.none THEN NoneList ELSE ListOf(base))
        ELSE IF term_event.kind = "list"
        THEN ListOf(base \o term_event.items)
        ELSE ListOf(Append(base, term_event.items[1]))

\* self._kill_events after solve: the merged list is a new list, so the
\* registered events are left as they were
KillEventsAfterSolve_Aliased(internal, term_event) ==
    IF internal.none THEN internal ELSE MergeEvents(internal, term_event)

KillEventsAfterSolve(internal, term_event) == internal

Info(solution, x_end, F_end, status, message) ==
    [status |-> status,
     x_end |-> x_end,
     F_end |-> F_end,
     message |-> message,
     solution |-> solution]

\* the values set before the outcome is looked at; they stand when the
\* solver failed
FailedInfo_SolutionKept(rtn, xrange, y0) ==
    Info(_solution, xrange[1], y0, -99, rtn.message)

FailedInfo_Completed(rtn, xrange, y0) ==
    Info(NoSolution, xrange[1], y0, 0, <<>>)

FailedInfo(rtn, xrange, y0) ==
    Info(NoSolution, xrange[1], y0, -99, rtn.message)

\* rtn.status == 0: the end of the range was reached
CompletedInfo_StartKept(rtn, xrange, y0) ==
    Info(SomeSolution(rtn.sol), xrange[1], OdeSolutionCall(rtn.sol, xrange[1]),
         0, <<>>)

CompletedInfo(rtn, xrange, y0) ==
    LET x_end == rtn.t[Len(rtn.t)]
    IN  Info(SomeSolution(rtn.sol), x_end, OdeSolutionCall(rtn.sol, x_end),
             0, <<>>)

\* rtn.status == 1: the first event of the list with a recorded crossing
EventInfo_Separated(rtn, xrange, y0, kill_events) ==
    LET hit == {i \in 1..Len(rtn.t_events) : Len(rtn.t_events[i]) > 0}
    IN  IF hit = {}
        THEN Info(SomeSolution(rtn.sol), xrange[1], y0, -99,
                  <<"Event not found.">>)
        ELSE LET i == CHOOSE k \in hit : \A m \in hit : k <= m
                 x_end == rtn.t_events[i][1]
             IN  Info(SomeSolution(rtn.sol), x_end,
                      OdeSolutionCall(rtn.sol, x_end), -1, <<>>)

EventInfo_MessageKept(rtn, xrange, y0, kill_events) ==
    LET hit == {i \in 1..Len(rtn.t_events) : Len(rtn.t_events[i]) > 0}
    IN  IF hit = {}
        THEN Info(SomeSolution(rtn.sol), xrange[1], y0, -99, rtn.message)
        ELSE LET i == CHOOSE k \in hit : \A m \in hit : k <= m
                 x_end == rtn.t_events[i][1]
                 info == event_info(kill_events.items[i])
             IN  Info(SomeSolution(rtn.sol), x_end,
                      OdeSolutionCall(rtn.sol, x_end), info[1], info[2])

EventInfo(rtn, xrange, y0, kill_events) ==
    LET hit == {i \in 1..Len(rtn.t_events) : Len(rtn.t_events[i]) > 0}
    IN  IF hit = {}
        THEN Info(SomeSolution(rtn.sol), xrange[1], y0, -99,
                  <<"Event not found.">>)
        ELSE LET i == CHOOSE k \in hit : \A m \in hit : k <= m
                 x_end == rtn.t_events[i][1]
                 info == event_info(kill_events.items[i])
             IN  Info(SomeSolution(rtn.sol), x_end,
                      OdeSolutionCall(rtn.sol, x_end), info[1], info[2])

\* the label of the status, followed by the message when there is one
FormatMessage(status, message) ==
    IF Len(message) > 0
    THEN Str(FormatArg(TerminationMessage(status)) \o <<": ">> \o message)
    ELSE TerminationMessage(status)

\* everything solve does after the solver returned
GatherInfo(rtn, xrange, y0, kill_events) ==
    LET info ==
            IF ~rtn.success THEN FailedInfo(rtn, xrange, y0)
            ELSE IF rtn.status = 0 THEN CompletedInfo(rtn, xrange, y0)
            ELSE IF rtn.status = 1 THEN EventInfo(rtn, xrange, y0, kill_events)
            ELSE [FailedInfo(rtn, xrange, y0)
                    EXCEPT !.solution = SomeSolution(rtn.sol)]
    IN  [solution |-> info.solution,
         result |-> IBLResult(info.x_end, info.F_end, info.status,
                              FormatMessage(info.status, info.message),
                              rtn.success)]

\* ----------------------------------------------------------- edge velocity
\* An argument of set_velocity / __init__: None, a callable (with or without
\* a 'derivative' method), a number, a sized non-callable of length nx, or a
\* 2-tuple (x points, velocities) of arrays with xnd and und dimensions,
\* nx and nu entries in the first dimension, the x points increasing or not.
VelArg(kind, id, deriv, xnd, und, nx, nu, incr) ==
    [kind |-> kind, id |-> id, deriv |-> deriv, xnd |-> xnd, und |-> und,
     nx |-> nx, nu |-> nu, incr |-> incr]

ArgNone == VelArg("None", "", FALSE, 0, 0, 0, 0, FALSE)

ArgCallable(id, deriv) == VelArg("callable", id, deriv, 0, 0, 0, 0, FALSE)

ArgNumber == VelArg("number", "", FALSE, 0, 0, 0, 0, FALSE)

ArgSized(n) == VelArg("sized", "", FALSE, 0, 0, n, 0, FALSE)

ArgPair(xnd, und, nx, nu, incr) == VelArg("pair", "", FALSE, xnd, und, nx, nu, incr)

callable(a) == a.kind = "callable"

has_derivative(a) == callable(a) /\ a.deriv

\* A stored evaluator: None; the object given (callable or not); the n-th
\* derivative object of a callable; or the lambda that takes a finite
\* difference of whatever self._U_e / self._dU_edx holds when it is called.
Evaluator(kind, id, n, step) == [n |-> n,
                                 kind |-> kind,
                                 id |-> id,
                                 step |-> step]

EvalNone == Evaluator("None", "", 0, "")

EvalGiven(a) ==
    Evaluator(IF callable(a) THEN "given" ELSE "noncallable", a.id, 0, "")

EvalDerivative(a, n) == Evaluator("derivative", a.id, n, "")

EvalFiniteDifference(attr, n, step) == Evaluator("fd", attr, n, step)

VelOutcome(U, dU, d2U, raised) ==
    [raised |-> raised, vel |-> <<U, dU, d2U>>]

\* set_velocity with a callable U_e; cur is the triple of evaluators held
SetCallableVelocity_AnySecond(cur, U_e, dU_edx, d2U_edx2) ==
    IF dU_edx.kind = "None"
    THEN IF has_derivative(U_e)
         THEN VelOutcome(EvalGiven(U_e), EvalDerivative(U_e, 1),
                         EvalDerivative(U_e, 2), "none")
         ELSE VelOutcome(EvalGiven(U_e),
                         EvalFiniteDifference("self._U_e", 1, "1e-4"),
                         EvalFiniteDifference("self._U_e", 2, "1e-4"), "none")
    ELSE IF ~callable(dU_edx)
    THEN VelOutcome(EvalGiven(U_e), cur[2], cur[3], "ValueError")
    ELSE IF d2U_edx2.kind = "None"
    THEN IF has_derivative(dU_edx)
         THEN VelOutcome(EvalGiven(U_e), EvalGiven(dU_edx),
                         EvalDerivative(dU_edx, 1), "none")
         ELSE VelOutcome(EvalGiven(U_e), EvalGiven(dU_edx),
                         EvalFiniteDifference("self._dU_edx", 1, "1e-5"), "none")
    ELSE VelOutcome(EvalGiven(U_e), EvalGiven(dU_edx), EvalGiven(d2U_edx2), "none")

SetCallableVelocity_FirstNotAsked(cur, U_e, dU_edx, d2U_edx2) ==
    IF dU_edx.kind = "None"
    THEN IF d2U_edx2.kind /= "None"
         THEN VelOutcome(EvalGiven(U_e), cur[2], cur[3], "ValueError")
         ELSE IF has_derivative(U_e)
         THEN VelOutcome(EvalGiven(U_e), EvalDerivative(U_e, 1),
                         EvalDerivative(U_e, 2), "none")
         ELSE VelOutcome(EvalGiven(U_e),
                         EvalFiniteDifference("self._U_e", 1, "1e-4"),
                         EvalFiniteDifference("self._U_e", 2, "1e-4"), "none")
    ELSE IF ~callable(dU_edx)
    THEN VelOutcome(EvalGiven(U_e), cur[2], cur[3], "ValueError")
    ELSE IF d2U_edx2.kind = "None"
    THEN VelOutcome(EvalGiven(U_e), EvalGiven(dU_edx),
                    EvalFiniteDifference("self._dU_edx", 1, "1e-5"), "none")
    ELSE VelOutcome(EvalGiven(U_e), EvalGiven(dU_edx), EvalGiven(d2U_edx2), "none")

SetCallableVelocity(cur, U_e, dU_edx, d2U_edx2) ==
    IF dU_edx.kind = "None"
    THEN IF d2U_edx2.kind /= "None"
         THEN VelOutcome(EvalGiven(U_e), cur[2], cur[3], "ValueError")
         ELSE IF has_derivative(U_e)
         THEN VelOutcome(EvalGiven(U_e), EvalDerivative(U_e, 1),
                         EvalDerivative(U_e, 2), "none")
         ELSE VelOutcome(EvalGiven(U_e),
                         EvalFiniteDifference("self._U_e", 1, "1e-4"),
                         EvalFiniteDifference("self._U_e", 2, "1e-4"), "none")
    ELSE IF ~callable(dU_edx)
    THEN VelOutcome(EvalGiven(U_e), cur[2], cur[3], "ValueError")
    ELSE IF d2U_edx2.kind = "None"
    THEN IF has_derivative(dU_edx)
         THEN VelOutcome(EvalGiven(U_e), EvalGiven(dU_edx),
                         EvalDerivative(dU_edx, 1), "none")
         ELSE VelOutcome(EvalGiven(U_e), EvalGiven(dU_edx),
                         EvalFiniteDifference("self._dU_edx", 1, "1e-5"), "none")
    ELSE VelOutcome(EvalGiven(U_e), EvalGiven(dU_edx), EvalGiven(d2U_edx2), "none")

\* the spline built from a 2-tuple: a callable with a 'derivative' method
CubicSpline == ArgCallable("CubicSpline", TRUE)

\* set_velocity with a U_e that is not callable
SetSampledVelocity(cur, U_e, dU_edx, d2U_edx2) ==
    IF U_e.kind \in {"None", "number"}
    THEN VelOutcome(cur[1], cur[2], cur[3], "TypeError")
    ELSE IF U_e.kind = "pair"
    THEN IF U_e.xnd = 0
         THEN VelOutcome(cur[1], cur[2], cur[3], "IndexError")
         ELSE IF U_e.xnd /= 1 \/ U_e.und /= 1 \/ U_e.nx /= U_e.nu \/ U_e.nx < 2
         THEN VelOutcome(cur[1], cur[2], cur[3], "ValueError")
         ELSE IF ~U_e.incr
         THEN VelOutcome(cur[1], cur[2], cur[3], "ValueError")
         ELSE SetCallableVelocity(cur, CubicSpline, ArgNone, ArgNone)
    ELSE VelOutcome(cur[1], cur[2], cur[3], "ValueError")

set_velocity(cur, U_e, dU_edx, d2U_edx2) ==
    IF callable(U_e)
    THEN SetCallableVelocity(cur, U_e, dU_edx, d2U_edx2)
    ELSE SetSampledVelocity(cur, U_e, dU_edx, d2U_edx2)

\* __init__: the evaluators of the new instance, or the exception raised
init_velocity_SecondUnchecked(U_e, dU_edx, d2U_edx2) ==
    IF U_e.kind = "None"
    THEN IF dU_edx.kind /= "None"
         THEN VelOutcome(EvalNone, EvalNone, EvalNone, "ValueError")
         ELSE VelOutcome(EvalNone, EvalNone, EvalNone, "none")
    ELSE set_velocity(<<EvalNone, EvalNone, EvalNone>>, U_e, dU_edx, d2U_edx2)

init_velocity(U_e, dU_edx, d2U_edx2) ==
    IF U_e.kind = "None"
    THEN IF dU_edx.kind /= "None" \/ d2U_edx2.kind /= "None"
         THEN VelOutcome(EvalNone, EvalNone, EvalNone, "ValueError")
         ELSE VelOutcome(EvalNone, EvalNone, EvalNone, "none")
    ELSE set_velocity(<<EvalNone, EvalNone, EvalNone>>, U_e, dU_edx, d2U_edx2)

\* ------------------------------------------------------------ dense queries
Unset == [val |-> <<>>, set |-> FALSE]

Assigned(v) == [val |-> v, set |-> TRUE]

\* the first segment j with x_vec[j] <= x <= x_vec[j+1], 0 when there is none
OwningSegment(x) ==
    LET match == {j \in 1..Len(dense_output_vec.val) :
                    x_vec.val[j] <= x /\ x <= x_vec.val[j + 1]}
    IN  IF match = {} THEN 0 ELSE CHOOSE j \in match : \A m \in match : j <= m

\* a row of np.zeros([len(x), len(self._ode.y)])
ZeroRow == [k \in 1..Len(_ode.val) |-> RInt(0)]

\* the row y writes for one station
YRow(x) ==
    LET j == OwningSegment(x)
    IN  IF j = 0 THEN ZeroRow ELSE DenseCall(dense_output_vec.val[j], x)

\* the row yp writes for one station
YpRow(x) ==
    LET j == OwningSegment(x)
        seg == dense_output_vec.val[j]
        xdist == RDiv(RInt(x - seg.t_old), RInt(seg.h))
        cp == CumProdTile(xdist, seg.order + 1)
        p == [k \in 1..(seg.order + 1) |-> RDiv(cp[k], xdist)]
        term2 == [k \in 1..(seg.order + 1) |-> RInt(k)]
    IN  IF j = 0 THEN ZeroRow
        ELSE [i \in 1..Len(seg.Q) |->
                RDot([k \in 1..(seg.order + 1) |-> RMul(term2[k], seg.Q[i][k])], p)]

DenseAttributesSet == _ode.set /\ dense_output_vec.set /\ x_vec.set

y(x) ==
    IF ~DenseAttributesSet
    THEN [raised |-> "AttributeError", out |-> <<>>]
    ELSE [raised |-> "none", out |-> [i \in 1..Len(x) |-> YRow(x[i])]]

yp(x) ==
    IF ~DenseAttributesSet
    THEN [raised |-> "AttributeError", out |-> <<>>]
    ELSE [raised |-> "none", out |-> [i \in 1..Len(x) |-> YpRow(x[i])]]

\* ------------------------------------------------- Falkner-Skan solution
\* The wedge parameter beta of a FalknerSkan object and the exponent m of the
\* edge velocity U_e ~ x^m that goes with it.
BetaMin == <<0 - 199, 1000>>

BetaMax == RInt(2)

Infinity == <<1, 0>>

\* a <= b for floats that are not nan
RLeq(a, b) == a[1] * b[2] <= b[1] * a[2]

BetaAccepted(beta) ==
    ~IsNaN(beta) /\ RLeq(BetaMin, beta) /\ RLeq(beta, BetaMax)

\* m = beta/(2 - beta), infinite for beta = 2
MOfBeta(beta) ==
    IF beta = RInt(2) THEN Infinity
    ELSE RDiv(beta, RAdd(RInt(2), RMul(RInt(0 - 1), beta)))

\* beta = 2 m/(1 + m), 2 for an infinite m
BetaOfM_NotDoubled(m) ==
    IF m = Infinity THEN RInt(2)
    ELSE RDiv(m, RAdd(RInt(1), m))

BetaOfM(m) ==
    IF m = Infinity THEN RInt(2)
    ELSE RDiv(RMul(RInt(2), m), RAdd(RInt(1), m))

\* the object FalknerSkan(beta, u_ref, nu_ref, eta_inf) holds
FalknerSkan(beta, eta_inf) ==
    [m |-> MOfBeta(beta), beta |-> beta, eta_inf |-> eta_inf]

\* eta_inf when none is passed, and the one the caller passes
EtaInfs == {10, 8}

Betas ==
    { RInt(0 - 1), <<0 - 9, 50>>, <<0 - 1, 10>>, RInt(0), <<1, 5>>, <<3, 10>>,
      <<1, 2>>, RInt(1), <<3, 2>>, RInt(2), RInt(3) }

Ms ==
    { Infinity, RInt(3), RInt(1), <<1, 3>>, <<1, 9>>, RInt(0), <<0 - 1, 2>>,
      RInt(0 - 1) }

\* --------------------------------------------------------------- the calls
NoRtn == OdeResult(0, <<>>, <<>>, OdeSolution(<<>>, <<>>), <<>>)

NoResult == IBLResult(0, <<>>, -99, Str(<<"Not Set">>), FALSE)

\* the record of the latest call: what was passed and what came back
Call(op) ==
    [x |-> <<>>,
     events |-> NoneList,
     y0i |-> [ndim |-> 1, val |-> <<>>],
     term_event |-> NoTermEvent,
     rtn |-> NoRtn,
     xrange |-> <<0, 0>>,
     result |-> NoResult,
     raised |-> "none",
     vel |-> <<ArgNone, ArgNone, ArgNone>>,
     out |-> <<>>,
     op |-> op,
     pre |-> <<EvalNone, EvalNone, EvalNone>>]

NotPinned ==
    [y0i |-> [ndim |-> 1, val |-> <<>>],
     term_event |-> NoTermEvent,
     solution |-> NoSolution,
     xrange |-> <<0, 0>>,
     result |-> NoResult,
     set |-> FALSE,
     between |-> FALSE]

\* solve is given a range (start, end) with start < end
XRanges == {r \in {0, 1} \X Stations : r[1] < r[2]}

Y0Inputs == { [ndim |-> 0, val |-> <<RInt(1)>>],
              [ndim |-> 1, val |-> <<RInt(1), RInt(2)>>] }

EventLists(n) ==
    UNION { {s \in [1..k -> ExtraPool] : \A a, b \in 1..k : s[a] = s[b] => a = b}
            : k \in 0..n }

TermEvents ==
    {NoTermEvent} \cup {OneTermEvent(e) : e \in ExtraPool}
        \cup {TermEventList(s) : s \in EventLists(MaxExtra)}

QueryStations == (0 - 1)..(MaxX + 1)

Queries == UNION { [1..k -> QueryStations] : k \in 1..MaxQuery }

\* The closure and stepper an instance runs with: the station at which the
\* right-hand side becomes too stiff to step over (-1: none), and whether the
\* solver loses the crossing it stopped on.
Envs == { [stiffAt |-> 0 - 1, lostCrossing |-> FALSE],
          [stiffAt |-> 2, lostCrossing |-> FALSE],
          [stiffAt |-> 0 - 1, lostCrossing |-> TRUE] }

solve(xrange, y0i, term_event) ==
    \E kill_events \in {MergeEvents(_kill_events, term_event)} :
    \E rtn \in {solve_ivp(xrange, AsY0(y0i), kill_events)} :
    \E got \in {GatherInfo(rtn, xrange, AsY0(y0i), kill_events)} :
        /\ _solution' = got.solution
        /\ _kill_events' = KillEventsAfterSolve(_kill_events, term_event)
        /\ last' = [Call("solve") EXCEPT !.xrange = xrange, !.y0i = y0i,
                                         !.term_event = term_event,
                                         !.rtn = [rtn EXCEPT !.sol = NoRtn.sol],
                                         !.events = kill_events,
                                         !.result = got.result]
        /\ UNCHANGED <<velVars, denseVars, env, fs>>

Solve ==
    \E xrange \in XRanges, y0i \in Y0Inputs, term_event \in TermEvents :
        solve(xrange, y0i, term_event) /\ UNCHANGED pinned

_add_kill_event(ke) ==
    IF _kill_events.none THEN ListOf(<<ke>>)
    ELSE ListOf(Append(_kill_events.items, ke))

AddKillEvent ==
    \E ke \in InternalPool :
        /\ Len(_kill_events.items) < MaxKill
        /\ _kill_events' = _add_kill_event(ke)
        /\ last' = Call("_add_kill_event")
        /\ pinned' = NotPinned
        /\ UNCHANGED <<velVars, denseVars, env, fs, _solution>>

QueryY ==
    \E x \in Queries :
        /\ last' = [Call("y") EXCEPT !.x = x, !.out = y(x).out,
                                     !.raised = y(x).raised]
        /\ UNCHANGED <<velVars, denseVars, env, fs, _solution, _kill_events, pinned>>

QueryYp ==
    \E x \in Queries :
        /\ last' = [Call("yp") EXCEPT !.x = x, !.out = yp(x).out,
                                      !.raised = yp(x).raised]
        /\ UNCHANGED <<velVars, denseVars, env, fs, _solution, _kill_events, pinned>>

\* the instance IBLBase(U_e, dU_edx, d2U_edx2) leaves behind
Fresh(vel) ==
    /\ _U_e = vel[1]
    /\ _dU_edx = vel[2]
    /\ _d2U_edx2 = vel[3]
    /\ _kill_events = NoneList
    /\ _solution = NoSolution
    /\ x_vec = Unset
    /\ dense_output_vec = Unset
    /\ _ode = Unset

Init ==
    /\ Fresh(init_velocity(ArgCallable("U", FALSE), ArgNone, ArgNone).vel)
    /\ env \in Envs
    /\ last = [Call("__init__") EXCEPT
                  !.vel = <<ArgCallable("U", FALSE), ArgNone, ArgNone>>]
    /\ pinned = NotPinned
    /\ fs = FalknerSkan(RInt(0), 10)

Next == Solve \/ AddKillEvent

Spec == Init /\ [][Next]_vars

\* ------------------------------------------- the dense segments of a solve
\* The stepping code that keeps the segments of the latest solution for y and
\* yp: each accepted step [t_old, t_old + h] with its interpolant, in order.
AppendDenseSegments ==
    /\ ~_solution.none
    /\ LET segs == _solution.interpolants
           n == Len(segs)
       IN  /\ x_vec' = Assigned([j \in 1..(n + 1) |->
                                    IF j <= n THEN segs[j].t_old
                                    ELSE segs[n].t_old + segs[n].h])
           /\ dense_output_vec' = Assigned(segs)
           /\ _ode' = Assigned(DenseCall(segs[n], segs[n].t_old + segs[n].h))
    /\ last' = Call("step")
    /\ UNCHANGED <<velVars, env, fs, _solution, _kill_events, pinned>>

DenseRanges == {<<0, MaxX>>, <<1, 2>>}

DenseTermEvents == {NoTermEvent, OneTermEvent(Event(1, <<>>, 2))}

SolveDense ==
    \E xrange \in DenseRanges, y0i \in Y0Inputs, term_event \in DenseTermEvents :
        solve(xrange, y0i, term_event) /\ UNCHANGED pinned

NextDense == SolveDense \/ AppendDenseSegments \/ QueryY \/ QueryYp

SpecDense == Init /\ [][NextDense]_vars

\* ------------------------------------------------------ solve called again
RestartRanges == {<<0, 1>>, <<0, MaxX>>}

RestartTermEvents ==
    {NoTermEvent, OneTermEvent(Event(1, <<>>, 2)),
     OneTermEvent(Event(-2, <<"custom stop">>, 1))}

\* pinned.between records that a call with extra events and other arguments
\* than the pinned call's has been made since
SolveAgain ==
    \E xrange \in RestartRanges, y0i \in Y0Inputs,
       term_event \in RestartTermEvents :
        /\ solve(xrange, y0i, term_event)
        /\ pinned' = IF /\ pinned.set
                         /\ term_event.kind /= "none"
                         /\ term_event /= pinned.term_event
                      THEN [pinned EXCEPT !.between = TRUE]
                      ELSE pinned

\* a solve call whose arguments and outcome are kept for comparison
SolveAndPin ==
    \E xrange \in RestartRanges, y0i \in Y0Inputs,
       term_event \in RestartTermEvents :
        /\ solve(xrange, y0i, term_event)
        /\ pinned' = [y0i |-> y0i,
                      term_event |-> term_event,
                      solution |-> _solution',
                      xrange |-> xrange,
                      result |-> last'.result,
                      set |-> TRUE,
                      between |-> FALSE]

NextRestart == SolveAgain \/ SolveAndPin \/ AddKillEvent

SpecRestart == Init /\ [][NextRestart]_vars

\* --------------------------------------------------- the velocity interface
UArgs ==
    { ArgNone, ArgCallable("U", FALSE), ArgCallable("Us", TRUE), ArgNumber,
      ArgSized(3), ArgPair(1, 1, 3, 3, TRUE), ArgPair(1, 1, 3, 3, FALSE),
      ArgPair(2, 1, 3, 3, TRUE), ArgPair(1, 2, 3, 3, TRUE),
      ArgPair(1, 1, 3, 2, TRUE), ArgPair(1, 1, 1, 1, TRUE),
      ArgPair(0, 0, 0, 0, TRUE) }

DArgs == {ArgNone, ArgCallable("dU", FALSE), ArgCallable("dUs", TRUE), ArgNumber}

D2Args == {ArgNone, ArgCallable("d2U", FALSE), ArgNumber}

\* what calling a stored evaluator does: it returns a value, or raises
RECURSIVE CallEvaluator(_)
CallEvaluator(ev) ==
    IF ev.kind \in {"None", "noncallable"} THEN "TypeError"
    ELSE IF ev.kind = "fd"
    THEN CallEvaluator(IF ev.id = "self._U_e" THEN _U_e ELSE _dU_edx)
    ELSE "none"

\* U_e(x), dU_edx(x), d2U_edx2(x): ValueError when the evaluator is not set
VelocityQuery_Sentinel(ev) ==
    IF ev.kind /= "None" THEN CallEvaluator(ev) ELSE "none"

VelocityQuery(ev) ==
    IF ev.kind /= "None" THEN CallEvaluator(ev) ELSE "ValueError"

\* IBLBase(U_e, dU_edx, d2U_edx2): the new instance takes the place of the
\* one at hand; when __init__ raises there is no new instance
NewInstance(U_e, dU_edx, d2U_edx2) ==
    \E got \in {init_velocity(U_e, dU_edx, d2U_edx2)} :
        /\ IF got.raised = "none"
           THEN /\ _U_e' = got.vel[1]
                /\ _dU_edx' = got.vel[2]
                /\ _d2U_edx2' = got.vel[3]
                /\ _kill_events' = NoneList
                /\ _solution' = NoSolution
                /\ x_vec' = Unset
                /\ dense_output_vec' = Unset
                /\ _ode' = Unset
           ELSE UNCHANGED <<velVars, denseVars, _solution, _kill_events>>
        /\ last' = [Call("__init__") EXCEPT
                        !.vel = <<U_e, dU_edx, d2U_edx2>>,
                        !.pre = <<_U_e, _dU_edx, _d2U_edx2>>,
                        !.raised = got.raised]
        /\ pinned' = NotPinned
        /\ UNCHANGED <<env, fs>>

Construct ==
    \E U_e \in UArgs, dU_edx \in DArgs, d2U_edx2 \in D2Args :
        NewInstance(U_e, dU_edx, d2U_edx2)

SetVelocity ==
    \E U_e \in UArgs, dU_edx \in DArgs, d2U_edx2 \in D2Args :
    \E got \in {set_velocity(<<_U_e, _dU_edx, _d2U_edx2>>,
                             U_e, dU_edx, d2U_edx2)} :
        /\ _U_e' = got.vel[1]
        /\ _dU_edx' = got.vel[2]
        /\ _d2U_edx2' = got.vel[3]
        /\ last' = [Call("set_velocity") EXCEPT
                        !.vel = <<U_e, dU_edx, d2U_edx2>>,
                        !.pre = <<_U_e, _dU_edx, _d2U_edx2>>,
                        !.raised = got.raised]
        /\ UNCHANGED <<denseVars, env, fs, _solution, _kill_events, pinned>>

QueryU_e ==
    /\ last' = [Call("U_e") EXCEPT !.raised = VelocityQuery(_U_e)]
    /\ UNCHANGED <<velVars, denseVars, env, fs, _solution, _kill_events, pinned>>

QuerydU_edx ==
    /\ last' = [Call("dU_edx") EXCEPT !.raised = VelocityQuery(_dU_edx)]
    /\ UNCHANGED <<velVars, denseVars, env, fs, _solution, _kill_events, pinned>>

Queryd2U_edx2 ==
    /\ last' = [Call("d2U_edx2") EXCEPT !.raised = VelocityQuery(_d2U_edx2)]
    /\ UNCHANGED <<velVars, denseVars, env, fs, _solution, _kill_events, pinned>>

\* the instance IBLBase() leaves behind: no velocity set
InitVelocity ==
    /\ Fresh(init_velocity(ArgNone, ArgNone, ArgNone).vel)
    /\ env = [stiffAt |-> 0 - 1, lostCrossing |-> FALSE]
    /\ last = Call("__init__")
    /\ pinned = NotPinned
    /\ fs = FalknerSkan(RInt(0), 10)

NextVelocity ==
    Construct \/ SetVelocity \/ QueryU_e \/ QuerydU_edx \/ Queryd2U_edx2

SpecVelocity == InitVelocity /\ [][NextVelocity]_vars

\* ------------------------------------------- several events of each kind
\* one more registered event and one more extra event than elsewhere
AddMoreKillEvents ==
    \E ke \in InternalPool :
        /\ Len(_kill_events.items) < MaxKill + 1
        /\ _kill_events' = _add_kill_event(ke)
        /\ last' = Call("_add_kill_event")
        /\ pinned' = NotPinned
        /\ UNCHANGED <<velVars, denseVars, env, fs, _solution>>

WatchedTermEvents ==
    {NoTermEvent} \cup {OneTermEvent(e) : e \in ExtraPool}
        \cup {TermEventList(s) : s \in EventLists(MaxExtra + 1)}

SolveWatched ==
    \E y0i \in Y0Inputs, term_event \in WatchedTermEvents :
        solve(<<0, MaxX>>, y0i, term_event) /\ UNCHANGED pinned

NextEvents == SolveWatched \/ AddMoreKillEvents

SpecEvents == Init /\ [][NextEvents]_vars

\* ------------------------------------- construction after an instance's use
ConstructAgain ==
    \E U_e \in {ArgNone, ArgCallable("U", FALSE)},
       dU_edx \in {ArgNone, ArgCallable("dU", FALSE)},
       d2U_edx2 \in {ArgNone, ArgCallable("d2U", FALSE)} :
        NewInstance(U_e, dU_edx, d2U_edx2)

NextConstruct == ConstructAgain \/ AddKillEvent \/ SolveAgain

SpecConstruct == Init /\ [][NextConstruct]_vars

\* ----------------------------------------- Falkner-Skan object in use
fsFrame == <<velVars, denseVars, env, _solution, _kill_events, pinned>>

\* FalknerSkan(beta = ...): a new object, or ValueError and no new object
ConstructFalknerSkan ==
    \E beta \in Betas, eta_inf \in EtaInfs :
        /\ fs' = IF BetaAccepted(beta) THEN FalknerSkan(beta, eta_inf) ELSE fs
        /\ last' = [Call("FalknerSkan") EXCEPT
                        !.x = <<beta>>,
                        !.raised = IF BetaAccepted(beta) THEN "none"
                                   ELSE "ValueError"]
        /\ UNCHANGED fsFrame

\* sol.beta = ...
SetBeta ==
    \E beta \in Betas :
        /\ fs' = IF BetaAccepted(beta) THEN FalknerSkan(beta, fs.eta_inf)
                 ELSE fs
        /\ last' = [Call("beta.setter") EXCEPT
                        !.x = <<beta>>,
                        !.raised = IF BetaAccepted(beta) THEN "none"
                                   ELSE "ValueError"]
        /\ UNCHANGED fsFrame

\* sol.m = ...
SetM ==
    \E m \in Ms :
    \E beta \in {BetaOfM(m)} :
        /\ fs' = IF BetaAccepted(beta)
                 THEN [fs EXCEPT !.beta = beta, !.m = m] ELSE fs
        /\ last' = [Call("m.setter") EXCEPT
                        !.x = <<m>>,
                        !.raised = IF BetaAccepted(beta) THEN "none"
                                   ELSE "ValueError"]
        /\ UNCHANGED fsFrame

\* sol.beta
GetBeta ==
    /\ last' = [Call("beta") EXCEPT !.out = <<fs.beta>>]
    /\ UNCHANGED <<fsFrame, fs>>

\* sol.m
GetM ==
    /\ last' = [Call("m") EXCEPT !.out = <<fs.m>>]
    /\ UNCHANGED <<fsFrame, fs>>

InitFalknerSkan ==
    /\ Fresh(init_velocity(ArgNone, ArgNone, ArgNone).vel)
    /\ env = [stiffAt |-> 0 - 1, lostCrossing |-> FALSE]
    /\ last = [Call("FalknerSkan") EXCEPT !.x = <<RInt(0)>>]
    /\ pinned = NotPinned
    /\ fs = FalknerSkan(RInt(0), 10)

NextFalknerSkan ==
    ConstructFalknerSkan \/ SetBeta \/ SetM \/ GetBeta \/ GetM

SpecFalknerSkan == InitFalknerSkan /\ [][NextFalknerSkan]_vars

\* ------------------------------------------------------------------ claims
\* the events a solve call was given to watch: the registered ones in
\* registration order, then the extra ones of the call
Watched == (IF _kill_events.none THEN <<>> ELSE _kill_events.items)
               \o last.term_event.items

Solved == last.op = "solve"

\* the final step of the stored solution, as the stations it spans
FinalStep ==
    LET seg == _solution.interpolants[Len(_solution.interpolants)]
    IN  seg.t_old..(seg.t_old + seg.h)

\* the text "<label>: <reason>", or the label alone for an empty reason
LabelledText(label, reason) ==
    IF reason = <<>> THEN <<label>> ELSE <<label, ": ">> \o reason

NoEventInRange ==
    \A i \in 1..Len(Watched) :
        Watched[i].root \notin last.xrange[1]..last.xrange[2]

\* C1: a solve over (start, end) in which no event fires and the solver does
\* not fail returns status 0, success, x_end = end and F_end = the stored
\* dense solution evaluated at end.
C1_CompletedAtEnd ==
    (Solved /\ NoEventInRange /\ last.rtn.success) =>
        /\ last.result.status = 0
        /\ last.result.success
        /\ last.result.x_end = last.xrange[2]
        /\ ~_solution.none
        /\ last.result.F_end = OdeSolutionCall(_solution, last.xrange[2])

C1_Witness ==
    /\ Solved /\ NoEventInRange /\ last.rtn.success
    /\ Len(Watched) > 1
    /\ last.result.status = 0

\* the events with a recorded crossing
Crossed == {i \in 1..Len(last.rtn.t_events) : last.rtn.t_events[i] /= <<>>}

EventStop == Solved /\ last.rtn.status = 1 /\ Crossed /= {}

\* C2: when solve stops on an event, status is that event's code, the message
\* is "Separated" (code -1) or "Transition" (code +1) followed by the event's
\* reason, x_end is the event's root and F_end the dense solution there.
C2_EventReported ==
    EventStop =>
        \E i \in Crossed :
            LET e == Watched[i] IN
            /\ last.result.status = e.code
            /\ e.code = -1 =>
                 last.result.message = Str(LabelledText("Separated", e.reason))
            /\ e.code = 1 =>
                 last.result.message = Str(LabelledText("Transition", e.reason))
            /\ last.result.x_end = e.root
            /\ last.result.x_end = last.rtn.t_events[i][1]
            /\ last.result.F_end = OdeSolutionCall(_solution, e.root)

C2_Witness ==
    /\ EventStop
    /\ last.result.status = -1
    /\ last.result.message = Str(<<"Separated", ": ", "H_d too large">>)
    /\ last.result.x_end > last.xrange[1]
    /\ last.result.x_end < last.xrange[2]

\* the events whose trigger station lies in the final step
Triggered == {i \in 1..Len(Watched) : Watched[i].root \in FinalStep}

\* of those, the one with the smallest station, the first registered on a tie
Earliest ==
    CHOOSE i \in Triggered :
        \A j \in Triggered :
            \/ Watched[i].root < Watched[j].root
            \/ (Watched[i].root = Watched[j].root /\ i <= j)

C4_FailureIsAResult ==
    (Solved /\ ~last.rtn.success) =>
        /\ last.raised = "none"
        /\ last.result.status = -99
        /\ ~last.result.success
        /\ ~last.result.message.none
        /\ \E k \in 1..Len(last.result.message.text) :
              SubSeq(last.result.message.text, k, Len(last.result.message.text))
                 = last.rtn.message
        /\ last.rtn.message /= <<>>

C4_Witness ==
    /\ Solved /\ ~last.rtn.success
    /\ last.rtn.message = TOO_SMALL_STEP
    /\ last.xrange[1] < env.stiffAt

EventNotFoundText == Str(<<"Unknown Event", ": ", "Event not found.">>)

\* C5: when the solver reports an event stop and no event has a recorded
\* crossing, solve returns status -99 with the message "Unknown Event: Event
\* not found.", and no other outcome of solve carries that message.
C5_EventNotFound ==
    Solved =>
        /\ (last.rtn.status = 1 /\ Crossed = {}) =>
              /\ last.result.status = -99
              /\ last.result.message = EventNotFoundText
        /\ last.result.message = EventNotFoundText =>
              (last.rtn.status = 1 /\ Crossed = {})

C5_Witness ==
    /\ Solved /\ last.rtn.status = 1 /\ Crossed = {}
    /\ last.result.message = EventNotFoundText
    /\ last.result.success

\* the range [start, x_end] of the stored solution
SolvedRange == _solution.ts[1].._solution.ts[Len(_solution.ts)]

DenseQuery == last.op \in {"y", "yp"} /\ ~_solution.none /\ DenseAttributesSet

\* C6: a dense query (y or yp) at a station outside [start, x_end] fails with
\* a range error and returns no value.
C6_OutOfRangeRejected ==
    (DenseQuery /\ \E i \in 1..Len(last.x) : last.x[i] \notin SolvedRange) =>
        last.raised \in {"ValueError", "IndexError"}

\* C7: yp at the start of a dense segment (normalised coordinate zero)
\* returns a finite derivative.
C7_DerivativeAtSegmentStart ==
    (last.op = "yp" /\ last.raised = "none") =>
        \A i \in 1..Len(last.x) :
            LET j == OwningSegment(last.x[i]) IN
            (j > 0 /\ last.x[i] = dense_output_vec.val[j].t_old) =>
                \A k \in 1..Len(last.out[i]) : IsFinite(last.out[i][k])

\* C8: once solve has returned with a solution, y at the start station
\* succeeds and returns the initial state, and y at x_end succeeds and returns
\* F_end.
C8_EndpointsAnswered ==
    (last.op = "y" /\ ~_solution.none) =>
        \A i \in 1..Len(last.x) :
            /\ last.x[i] \in SolvedRange => last.raised = "none"
            /\ last.x[i] = _solution.ts[1] =>
                 /\ last.raised = "none"
                 /\ last.out[i] = _solution.interpolants[1].y_old
            /\ last.x[i] = _solution.ts[Len(_solution.ts)] =>
                 /\ last.raised = "none"
                 /\ last.out[i] = OdeSolutionCall(_solution, last.x[i])

SameCallAsPinned ==
    /\ Solved /\ pinned.set
    /\ last.xrange = pinned.xrange
    /\ last.y0i = pinned.y0i
    /\ last.term_event = pinned.term_event

\* C9: a solve call with the arguments of an earlier call on the same
\* instance, whatever was solved in between, returns the same x_end, F_end,
\* status, message and success and stores the same dense solution.
C9_NoCarryOver ==
    SameCallAsPinned =>
        /\ last.result = pinned.result
        /\ _solution = pinned.solution

C9_Witness ==
    /\ SameCallAsPinned
    /\ pinned.between
    /\ ~_kill_events.none
    /\ last.term_event.kind = "none"
    /\ last.xrange = <<0, MaxX>>
    /\ last.result.status = 0 - 2
    /\ last.result.x_end = MaxX

\* C10: set_velocity or the constructor given a callable U_e, no first
\* derivative and a second derivative raises ValueError.
C10_SecondNeedsFirst ==
    ( /\ last.op \in {"set_velocity", "__init__"}
      /\ callable(last.vel[1])
      /\ last.vel[2].kind = "None"
      /\ last.vel[3].kind /= "None" ) => last.raised = "ValueError"

C10_Witness ==
    /\ last.op = "set_velocity"
    /\ callable(last.vel[1])
    /\ last.vel[2].kind = "None"
    /\ callable(last.vel[3])
    /\ last.raised = "ValueError"
    /\ last.pre[1].kind = "given"

\* C11: set_velocity given a U_e that is neither callable nor a 2-tuple
\* raises ValueError, also when U_e has no length (a number, None).
C11_UnrecognizedRejected ==
    ( /\ last.op = "set_velocity"
      /\ last.vel[1].kind \in {"None", "number", "sized"} ) =>
        last.raised = "ValueError"

\* a 2-tuple set_velocity can build a spline from
ValidPair(a) ==
    /\ a.kind = "pair"
    /\ a.xnd = 1 /\ a.und = 1
    /\ a.nx = a.nu /\ a.nx >= 2
    /\ a.incr

\* C12: set_velocity given a 2-tuple (x points, velocities) raises ValueError
\* unless both are 1-D, of the same length, of at least 2 points and the x
\* points increase strictly; otherwise U_e is the cubic spline of the points
\* and both derivatives are derivatives of that spline.
C12_PairValidated ==
    (last.op = "set_velocity" /\ last.vel[1].kind = "pair") =>
        IF ValidPair(last.vel[1])
        THEN /\ last.raised = "none"
             /\ _U_e = EvalGiven(CubicSpline)
             /\ _dU_edx = EvalDerivative(CubicSpline, 1)
             /\ _d2U_edx2 = EvalDerivative(CubicSpline, 2)
        ELSE last.raised = "ValueError"

\* the same, for 2-tuples whose first element has at least one dimension
C12_PairOfArraysValidated ==
    (last.op = "set_velocity" /\ last.vel[1].kind = "pair"
        /\ last.vel[1].xnd > 0) =>
        IF ValidPair(last.vel[1])
        THEN /\ last.raised = "none"
             /\ _U_e = EvalGiven(CubicSpline)
             /\ _dU_edx = EvalDerivative(CubicSpline, 1)
             /\ _d2U_edx2 = EvalDerivative(CubicSpline, 2)
        ELSE last.raised = "ValueError"

\* C13: on an instance whose velocity is not set, U_e(x), dU_edx(x) and
\* d2U_edx2(x) each raise ValueError and return nothing.
C13_UnsetQueriesRaise ==
    /\ (last.op = "U_e" /\ _U_e.kind = "None") => last.raised = "ValueError"
    /\ (last.op = "dU_edx" /\ _dU_edx.kind = "None") =>
          last.raised = "ValueError"
    /\ (last.op = "d2U_edx2" /\ _d2U_edx2.kind = "None") =>
          last.raised = "ValueError"

C13_Witness ==
    /\ last.op = "d2U_edx2"
    /\ _U_e.kind = "None" /\ _dU_edx.kind = "None" /\ _d2U_edx2.kind = "None"
    /\ last.raised = "ValueError"

\* the evaluator is a finite difference of order n of what attr holds
IsFiniteDifference(ev, attr, n) ==
    ev.kind = "fd" /\ ev.id = attr /\ ev.n = n

\* C14: after a successful set_velocity with a callable U_e: with no
\* derivative given both derivatives are U_e's own derivatives when it has a
\* derivative method and finite differences of U_e otherwise; with only the
\* first given the second is the first's own derivative when it has a
\* derivative method and a finite difference of the first otherwise; a given
\* derivative is stored as given.
C14_DerivativeSources ==
    ( /\ last.op \in {"set_velocity", "__init__"}
      /\ callable(last.vel[1])
      /\ last.raised = "none" ) =>
        LET U == last.vel[1]
            D == last.vel[2]
            D2 == last.vel[3]
        IN  /\ _U_e = EvalGiven(U)
            /\ D.kind = "None" =>
                 IF has_derivative(U)
                 THEN /\ _dU_edx = EvalDerivative(U, 1)
                      /\ _d2U_edx2 = EvalDerivative(U, 2)
                 ELSE /\ IsFiniteDifference(_dU_edx, "self._U_e", 1)
                      /\ IsFiniteDifference(_d2U_edx2, "self._U_e", 2)
            /\ D.kind /= "None" =>
                 /\ _dU_edx = EvalGiven(D)
                 /\ D2.kind /= "None" => _d2U_edx2 = EvalGiven(D2)
                 /\ D2.kind = "None" =>
                      IF has_derivative(D)
                      THEN _d2U_edx2 = EvalDerivative(D, 1)
                      ELSE IsFiniteDifference(_d2U_edx2, "self._dU_edx", 1)

C14_Witness ==
    /\ last.op = "set_velocity"
    /\ callable(last.vel[1]) /\ ~has_derivative(last.vel[1])
    /\ has_derivative(last.vel[2])
    /\ last.vel[3].kind = "None"
    /\ last.raised = "none"
    /\ _d2U_edx2 = EvalDerivative(last.vel[2], 1)
    /\ last.pre[3].kind = "fd"

\* C15: IBLBase() with no U_e and a first or second derivative raises
\* ValueError; with no velocity argument at all it succeeds and the new
\* instance has no evaluator set, no registered event and no stored solution.
C15_Constructor ==
    (last.op = "__init__" /\ last.vel[1].kind = "None") =>
        IF last.vel[2].kind /= "None" \/ last.vel[3].kind /= "None"
        THEN last.raised = "ValueError"
        ELSE /\ last.raised = "none"
             /\ _U_e = EvalNone /\ _dU_edx = EvalNone /\ _d2U_edx2 = EvalNone
             /\ _kill_events.none
             /\ _solution.none

C15_Witness ==
    /\ last.op = "__init__"
    /\ last.vel = <<ArgNone, ArgNone, ArgNone>>
    /\ last.raised = "none"
    /\ last.pre[1].kind = "given"
    /\ _U_e = EvalNone /\ _kill_events.none /\ _solution.none

\* C16: solve given an initial state whose dimension is not the closure's
\* state dimension raises a configuration error and integrates nothing.
C16_StateDimensionChecked ==
    (Solved /\ Len(AsY0(last.y0i)) /= StateDimension) =>
        last.raised = "ValueError"

\* m = beta/(2 - beta), with m infinite exactly when beta is 2
Related(beta, m) ==
    IF beta = RInt(2) THEN m = Infinity
    ELSE /\ IsFinite(m) /\ IsFinite(beta)
         /\ m[1] * (2 * beta[2] - beta[1]) = beta[1] * m[2]

Registered == IF _kill_events.none THEN <<>> ELSE _kill_events.items

Extra == last.term_event.items

\* C18: the events solve hands to the solver are the registered events in
\* registration order followed by the call's extra events in the given order,
\* a single event given without a list counting as one; the fired event's
\* code and reason are looked up at the same index of that list; with no
\* registered and no extra event no event is watched.
C18_WatchedEvents ==
    Solved =>
        /\ ~last.events.none => last.events.items = Registered \o Extra
        /\ last.events.none => (Registered = <<>> /\ Extra = <<>>)
        /\ last.term_event.kind = "one" =>
              /\ Len(Extra) = 1
              /\ Len(last.events.items) = Len(Registered) + 1
        /\ Len(last.rtn.t_events) = Len(Registered) + Len(Extra)
        /\ EventStop =>
              \E i \in Crossed :
                  /\ \A j \in Crossed : i <= j
                  /\ last.result.status = (Registered \o Extra)[i].code
                  /\ last.result.x_end = (Registered \o Extra)[i].root
                  /\ last.result.x_end = last.rtn.t_events[i][1]

C18_Witness ==
    /\ EventStop
    /\ Len(Registered) = 2 /\ Registered[1] /= Registered[2]
    /\ last.term_event.kind = "list" /\ Len(Extra) = 2
    /\ Crossed = {2}
    /\ last.result.status = Registered[2].code

\* C19: when solve stops on an event whose code is neither -1 nor +1 the
\* status is that code and the message is a text that starts with a category
\* label and ends with the event's reason; the message of every result of
\* solve is a text.
C19_OtherCodes ==
    Solved =>
        /\ ~last.result.message.none
        /\ EventStop =>
              \A i \in Crossed :
                  LET e == Watched[i]
                      text == last.result.message.text
                  IN  e.code \notin {0 - 1, 1} =>
                        /\ last.result.status = e.code
                        /\ Len(text) > Len(e.reason)
                        /\ SubSeq(text, Len(text) - Len(e.reason) + 1, Len(text))
                              = e.reason

\* the part of C19 that the code keeps: the status is the event's code
C19_StatusIsTheCode ==
    EventStop => \A i \in Crossed : last.result.status = Watched[i].code

\* C20: a set_velocity call that raises ValueError leaves _U_e, _dU_edx and
\* _d2U_edx2 as they were before the call.
C20_FailedSetVelocityKeepsAll ==
    (last.op = "set_velocity" /\ last.raised = "ValueError") =>
        <<_U_e, _dU_edx, _d2U_edx2>> = last.pre

\* an evaluator that is set and can be called
SetAndCallable(ev) == ev.kind \in {"given", "derivative", "fd"}

GivenNonCallable(a) == a.kind /= "None" /\ ~callable(a)

\* C21: after a set_velocity call that returns without error all three
\* evaluators are set and callable, and a callable U_e passed with a
\* non-callable first derivative or a non-callable second derivative raises
\* ValueError.
C21_CallableEvaluators ==
    last.op = "set_velocity" =>
        /\ last.raised = "none" =>
              /\ SetAndCallable(_U_e)
              /\ SetAndCallable(_dU_edx)
              /\ SetAndCallable(_d2U_edx2)
        /\ ( /\ callable(last.vel[1])
             /\ GivenNonCallable(last.vel[2]) \/ GivenNonCallable(last.vel[3]) )
              => last.raised = "ValueError"

\* the part of C21 about the first derivative: a callable U_e passed with a
\* non-callable first derivative raises ValueError
C21_FirstDerivativeChecked ==
    ( /\ last.op = "set_velocity"
      /\ callable(last.vel[1])
      /\ GivenNonCallable(last.vel[2]) ) => last.raised = "ValueError"

\* C22: when solve returns a result with success false, the result has the
\* start station as x_end, the initial state as F_end and status -99, and
\* the instance holds no dense solution, whatever an earlier solve stored.
C22_FailureResetsAll ==
    (Solved /\ ~last.result.success) =>
        /\ last.result.x_end = last.xrange[1]
        /\ last.result.F_end = AsY0(last.y0i)
        /\ last.result.status = 0 - 99
        /\ _solution.none

C22_Witness ==
    /\ Solved /\ ~last.result.success
    /\ pinned.set
    /\ pinned.result.success
    /\ ~pinned.solution.none
    /\ last.xrange /= pinned.xrange
    /\ _solution.none

====
